---------------------------- MODULE Spec2Model ----------------------------
(***************************************************************************)
(* The Scrabble session engine of scrabble-frontend/src/App.js: the        *)
(* ScrabbleGame class (lines 527-846), the room registry gameRooms and the *)
(* socket.io handlers (lines 848-1005).                                    *)
(*                                                                         *)
(* Conventions.  Indices and coordinates are 0-based as in the JavaScript; *)
(* a TLA+ sequence s holds the array element a[i] at s[i + 1].  A tile     *)
(* object {letter, value, id} is represented by its id, the position at    *)
(* which initializeTileBag minted it (1..100); its letter and value are    *)
(* TileLetter(id) and TileValue(id).  null is NoTile on the board and      *)
(* NoSocket for hostId.  Math.random is a nondeterministic choice: a       *)
(* shuffle is the code's Fisher-Yates loop run on one of the streams of    *)
(* random draws in Shuffles.                                               *)
(***************************************************************************)
EXTENDS Integers, Sequences, FiniteSets, TLC

VARIABLES
  gameRooms,        \* const gameRooms = {}: room id -> ScrabbleGame
  connected,        \* the sockets whose connection is open
  socketRooms,      \* socket.join(roomId): the pairs <<socket, room>>
  sentGameState,    \* <<socket, room>> -> the public view last emitted to it
  sentPlayerState,  \* <<socket, room>> -> the private view last emitted to it
  request,          \* the inbound event being dispatched, NoRequest when idle
  reply,            \* what its handler emitted back about it, NoReply before
  events            \* how many events have been dispatched so far

vars == <<gameRooms, connected, socketRooms, sentGameState, sentPlayerState,
          request, reply, events>>

----------------------------------------------------------------------------
(* Bounds of the model *)

NumSockets == 2     \* the clients that connect
MaxEvents == 5      \* the events a run dispatches

(* the streams of random draws a shuffle may run on *)
Shuffles == {0, 1}

(* Program constants *)

NoTile == 0
NoSocket == 0
BOARD_SIZE == 15
CENTER == 7
MAX_PLAYERS == 4
RACK_SIZE == 7
BINGO_TILES == 7
BINGO_BONUS == 50

Sockets == 1..NumSockets
Rooms == {"r1"}
Coords == 0..(BOARD_SIZE - 1)

----------------------------------------------------------------------------
(* Tiles *)

TILE_DISTRIBUTION ==
  << <<"A", 9>>, <<"B", 2>>, <<"C", 2>>, <<"D", 4>>, <<"E", 12>>, <<"F", 2>>,
     <<"G", 3>>, <<"H", 2>>, <<"I", 9>>, <<"J", 1>>, <<"K", 1>>, <<"L", 4>>,
     <<"M", 2>>, <<"N", 6>>, <<"O", 8>>, <<"P", 2>>, <<"Q", 1>>, <<"R", 6>>,
     <<"S", 4>>, <<"T", 6>>, <<"U", 4>>, <<"V", 2>>, <<"W", 2>>, <<"X", 1>>,
     <<"Y", 2>>, <<"Z", 1>>, <<"_", 2>> >>

TILE_VALUES ==
  ("A" :> 1) @@ ("B" :> 3) @@ ("C" :> 3) @@ ("D" :> 2) @@ ("E" :> 1) @@ ("F" :> 4) @@
  ("G" :> 2) @@ ("H" :> 4) @@ ("I" :> 1) @@ ("J" :> 8) @@ ("K" :> 5) @@ ("L" :> 1) @@
  ("M" :> 3) @@ ("N" :> 1) @@ ("O" :> 1) @@ ("P" :> 3) @@ ("Q" :> 10) @@ ("R" :> 1) @@
  ("S" :> 1) @@ ("T" :> 1) @@ ("U" :> 1) @@ ("V" :> 4) @@ ("W" :> 4) @@ ("X" :> 8) @@
  ("Y" :> 4) @@ ("Z" :> 10) @@ ("_" :> 0)

RECURSIVE MintedBefore(_)
(* how many tiles initializeTileBag has pushed before it reaches the k-th  *)
(* letter of TILE_DISTRIBUTION                                             *)
MintedBefore(k) ==
  IF k <= 1 THEN 0 ELSE MintedBefore(k - 1) + TILE_DISTRIBUTION[k - 1][2]

(* The letters of the tiles initializeTileBag pushes, in push order: for   *)
(* each letter of TILE_DISTRIBUTION, count copies.                         *)
MintedLetters ==
  [id \in 1..MintedBefore(Len(TILE_DISTRIBUTION) + 1) |->
     TILE_DISTRIBUTION[CHOOSE k \in 1..Len(TILE_DISTRIBUTION) :
                         MintedBefore(k) < id /\ id <= MintedBefore(k + 1)][1]]

NumTiles == Len(MintedLetters)

TileLetter(id) == MintedLetters[id]
TileValue(id) == TILE_VALUES[TileLetter(id)]

----------------------------------------------------------------------------
(* Premium squares *)

PREMIUM_TW ==
  { <<0, 0>>, <<0, 7>>, <<0, 14>>, <<7, 0>>, <<7, 14>>, <<14, 0>>, <<14, 7>>,
    <<14, 14>> }
PREMIUM_DW ==
  { <<1, 1>>, <<2, 2>>, <<3, 3>>, <<4, 4>>, <<1, 13>>, <<2, 12>>, <<3, 11>>,
    <<4, 10>>, <<13, 1>>, <<12, 2>>, <<11, 3>>, <<10, 4>>, <<13, 13>>,
    <<12, 12>>, <<11, 11>>, <<10, 10>>, <<7, 7>> }
PREMIUM_TL ==
  { <<1, 5>>, <<1, 9>>, <<5, 1>>, <<5, 5>>, <<5, 9>>, <<5, 13>>, <<9, 1>>,
    <<9, 5>>, <<9, 9>>, <<9, 13>>, <<13, 5>>, <<13, 9>> }
PREMIUM_DL ==
  { <<0, 3>>, <<0, 11>>, <<2, 6>>, <<2, 8>>, <<3, 0>>, <<3, 7>>, <<3, 14>>,
    <<6, 2>>, <<6, 6>>, <<6, 8>>, <<6, 12>>, <<7, 3>>, <<7, 11>>, <<8, 2>>,
    <<8, 6>>, <<8, 8>>, <<8, 12>>, <<11, 0>>, <<11, 7>>, <<11, 14>>,
    <<12, 6>>, <<12, 8>>, <<14, 3>>, <<14, 11>> }

----------------------------------------------------------------------------
(* Array helpers *)

Min(a, b) == IF a < b THEN a ELSE b

SeqToSet(s) == { s[i] : i \in 1..Len(s) }

(* array.splice(index, 1), index 0-based *)
Splice(s, index) ==
  [i \in 1..(Len(s) - 1) |-> IF i <= index THEN s[i] ELSE s[i + 1]]

Swap(s, a, b) == [s EXCEPT ![a] = s[b], ![b] = s[a]]

(* players.findIndex(p => p.id === socketId): 0-based, -1 when absent *)
FindIndex(players, socketId) ==
  IF \E i \in 1..Len(players) : players[i].id = socketId
  THEN (CHOOSE i \in 1..Len(players) :
          /\ players[i].id = socketId
          /\ \A j \in 1..(i - 1) : players[j].id # socketId) - 1
  ELSE -1

(* Math.floor(Math.random() * (i + 1)) on random stream k: a value in 0..i *)
RandomIndex(i, k) == IF k <= i THEN i - k ELSE 0

RECURSIVE FisherYates(_, _, _, _)
(* The iterations i = from, from - 1, ..., to of the shuffle loop, each    *)
(* swapping shuffled[i] and shuffled[j]; the range is run in two halves.   *)
FisherYates(shuffled, from, to, k) ==
  IF from < to THEN shuffled
  ELSE IF from = to THEN Swap(shuffled, from + 1, RandomIndex(from, k) + 1)
  ELSE LET mid == (from + to) \div 2
       IN CHOOSE result \in
            { FisherYates(upper, mid, to, k) :
                upper \in {FisherYates(shuffled, from, mid + 1, k)} } : TRUE

(* shuffle(array), its random draws taken from stream k *)
shuffle(array, k) == FisherYates(array, Len(array) - 1, 1, k)

----------------------------------------------------------------------------
(* class ScrabbleGame *)

(* The board, Array(15) of Array(15) of null or a tile, is held as the    *)
(* function from its occupied cells <<row, col>> to their tiles;           *)
(* BoardAt(board, row, col) is board[row][col].                            *)
EmptyBoard == <<>>

BoardAt(board, row, col) ==
  IF <<row, col>> \in DOMAIN board THEN board[<<row, col>>] ELSE NoTile

(* board[row][col] = tile *)
BoardPut(board, row, col, tile) ==
  [c \in DOMAIN board \cup {<<row, col>>} |->
     IF c = <<row, col>> THEN tile ELSE board[c]]

initializeTileBag(k) == shuffle([i \in 1..NumTiles |-> i], k)

NewGame(roomId, k) ==
  [roomId |-> roomId,
   players |-> <<>>,
   currentPlayerIndex |-> 0,
   board |-> EmptyBoard,
   tileBag |-> initializeTileBag(k),
   gameStarted |-> FALSE,
   firstMoveMade |-> FALSE,
   hostId |-> NoSocket]

(* a capacity check that lets a fifth player in *)
addPlayerOkFive(g) == Len(g.players) <= MAX_PLAYERS

(* addPlayer returns false and changes nothing when 4 players are present *)
addPlayerOk(g) == Len(g.players) < MAX_PLAYERS

addPlayer(g, socketId) ==
  IF ~addPlayerOk(g) THEN g
  ELSE LET player == [id |-> socketId,
                      name |-> Len(g.players) + 1,
                      score |-> 0,
                      tiles |-> <<>>,
                      isHost |-> Len(g.players) = 0]
       IN [g EXCEPT !.hostId = IF player.isHost THEN socketId ELSE @,
                    !.players = Append(@, player)]

(* a removePlayer that hands the host flag to the last player *)
removePlayerPromotesLast(g, socketId) ==
  LET index == FindIndex(g.players, socketId) IN
  IF index = -1 THEN g
  ELSE LET removedPlayer == g.players[index + 1]
           rest == Splice(g.players, index)
           promote == removedPlayer.isHost /\ Len(rest) > 0
           players == IF promote THEN [rest EXCEPT ![Len(rest)].isHost = TRUE]
                      ELSE rest
       IN [g EXCEPT !.tileBag = @ \o removedPlayer.tiles,
                    !.players = players,
                    !.hostId = IF promote THEN players[Len(rest)].id ELSE @,
                    !.currentPlayerIndex = IF @ >= Len(players) THEN 0 ELSE @]

(* a removePlayer that takes a game left with fewer than 2 players back    *)
(* to the lobby                                                            *)
removePlayerReopens(g, socketId) ==
  LET index == FindIndex(g.players, socketId) IN
  IF index = -1 THEN g
  ELSE LET removedPlayer == g.players[index + 1]
           rest == Splice(g.players, index)
           promote == removedPlayer.isHost /\ Len(rest) > 0
           players == IF promote THEN [rest EXCEPT ![1].isHost = TRUE] ELSE rest
       IN [g EXCEPT !.tileBag = @ \o removedPlayer.tiles,
                    !.players = players,
                    !.hostId = IF promote THEN players[1].id ELSE @,
                    !.gameStarted = @ /\ Len(players) >= 2,
                    !.currentPlayerIndex = IF @ >= Len(players) THEN 0 ELSE @]

(* a removePlayer that leaves currentPlayerIndex as it is *)
removePlayerNoClamp(g, socketId) ==
  LET index == FindIndex(g.players, socketId) IN
  IF index = -1 THEN g
  ELSE LET removedPlayer == g.players[index + 1]
           rest == Splice(g.players, index)
           promote == removedPlayer.isHost /\ Len(rest) > 0
           players == IF promote THEN [rest EXCEPT ![1].isHost = TRUE] ELSE rest
       IN [g EXCEPT !.tileBag = @ \o removedPlayer.tiles,
                    !.players = players,
                    !.hostId = IF promote THEN players[1].id ELSE @]

(* a removePlayer that promotes nobody *)
removePlayerNoHandoff(g, socketId) ==
  LET index == FindIndex(g.players, socketId) IN
  IF index = -1 THEN g
  ELSE [g EXCEPT !.tileBag = @ \o g.players[index + 1].tiles,
                 !.players = Splice(@, index),
                 !.currentPlayerIndex =
                    IF @ >= Len(g.players) - 1 THEN 0 ELSE @]

removePlayer(g, socketId) ==
  LET index == FindIndex(g.players, socketId) IN
  IF index = -1 THEN g
  ELSE LET removedPlayer == g.players[index + 1]
           rest == Splice(g.players, index)
           promote == removedPlayer.isHost /\ Len(rest) > 0
           players == IF promote THEN [rest EXCEPT ![1].isHost = TRUE] ELSE rest
       IN [g EXCEPT !.tileBag = @ \o removedPlayer.tiles,
                    !.players = players,
                    !.hostId = IF promote THEN players[1].id ELSE @,
                    !.currentPlayerIndex = IF @ >= Len(players) THEN 0 ELSE @]

RECURSIVE dealTiles(_, _, _)
(* dealTiles(player, count) for the player at 0-based position p: pops    *)
(* min(count, tileBag.length) tiles off the bag's tail onto the rack.      *)
dealTiles(g, p, count) ==
  IF count <= 0 \/ Len(g.tileBag) = 0 THEN g
  ELSE dealTiles([g EXCEPT !.players[p + 1].tiles = Append(@, g.tileBag[Len(g.tileBag)]),
                           !.tileBag = SubSeq(@, 1, Len(@) - 1)],
                 p, count - 1)

RECURSIVE dealAll(_, _)
dealAll(g, i) ==
  IF i >= Len(g.players) THEN g
  ELSE dealAll(dealTiles(g, i, RACK_SIZE), i + 1)

(* a startGame guard that does not count the players *)
startGameOkAlone(g) == ~g.gameStarted

startGameOk(g) == ~(g.gameStarted \/ Len(g.players) < 2)

startGame(g) ==
  IF ~startGameOk(g) THEN g
  ELSE dealAll([g EXCEPT !.gameStarted = TRUE], 0)

getCurrentPlayer(g) == g.players[g.currentPlayerIndex + 1]

(* a nextTurn that skips a player *)
nextTurnSkips(g) ==
  [g EXCEPT !.currentPlayerIndex = (@ + 2) % Len(g.players)]

nextTurn(g) ==
  [g EXCEPT !.currentPlayerIndex = (@ + 1) % Len(g.players)]

----------------------------------------------------------------------------
(* validateMove.  playedTiles is the array of {row, col, tile} records.     *)

MinOf(S) == CHOOSE x \in S : \A y \in S : x <= y
MaxOf(S) == CHOOSE x \in S : \A y \in S : x >= y

RowsOf(playedTiles) == { playedTiles[i].row : i \in 1..Len(playedTiles) }
ColsOf(playedTiles) == { playedTiles[i].col : i \in 1..Len(playedTiles) }

(* a center test that looks at the row alone *)
crossesCenterRow(playedTiles) ==
  \E i \in 1..Len(playedTiles) : playedTiles[i].row = CENTER

crossesCenter(playedTiles) ==
  \E i \in 1..Len(playedTiles) :
    playedTiles[i].row = CENTER /\ playedTiles[i].col = CENTER

(* rows.size > 1 && cols.size > 1 *)
notSingleLine(playedTiles) ==
  Cardinality(RowsOf(playedTiles)) > 1 /\ Cardinality(ColsOf(playedTiles)) > 1

(* contiguity loops that count the new tiles alone *)
hasGapAmongNew(g, playedTiles) ==
  IF Cardinality(RowsOf(playedTiles)) = 1
  THEN \E i \in MinOf(ColsOf(playedTiles))..MaxOf(ColsOf(playedTiles)) :
         \A p \in 1..Len(playedTiles) : playedTiles[p].col # i
  ELSE \E i \in MinOf(RowsOf(playedTiles))..MaxOf(RowsOf(playedTiles)) :
         \A p \in 1..Len(playedTiles) : playedTiles[p].row # i

(* The two contiguity loops: some index of the played range along the line *)
(* has neither a new tile nor an existing one.                             *)
hasGap(g, playedTiles) ==
  IF Cardinality(RowsOf(playedTiles)) = 1
  THEN LET row == playedTiles[1].row
           sortedCols == ColsOf(playedTiles)
       IN \E i \in MinOf(sortedCols)..MaxOf(sortedCols) :
            LET hasNewTile == \E p \in 1..Len(playedTiles) : playedTiles[p].col = i
                hasExistingTile == BoardAt(g.board, row, i) # NoTile
            IN ~hasNewTile /\ ~hasExistingTile
  ELSE LET col == playedTiles[1].col
           sortedRows == RowsOf(playedTiles)
       IN \E i \in MinOf(sortedRows)..MaxOf(sortedRows) :
            LET hasNewTile == \E p \in 1..Len(playedTiles) : playedTiles[p].row = i
                hasExistingTile == BoardAt(g.board, i, col) # NoTile
            IN ~hasNewTile /\ ~hasExistingTile

Neighbors(pt) ==
  { <<pt.row - 1, pt.col>>, <<pt.row + 1, pt.col>>,
    <<pt.row, pt.col - 1>>, <<pt.row, pt.col + 1>> }

(* a connected flag that takes the diagonal neighbours too *)
isConnectedDiagonal(g, playedTiles) ==
  \E p \in 1..Len(playedTiles) :
    \E dr \in {-1, 0, 1}, dc \in {-1, 0, 1} :
      /\ <<dr, dc>> # <<0, 0>>
      /\ BoardAt(g.board, playedTiles[p].row + dr, playedTiles[p].col + dc) # NoTile

(* a connected flag that is always set *)
isConnectedAlways(g, playedTiles) == TRUE

(* the connected flag of validateMove *)
isConnected(g, playedTiles) ==
  \E p \in 1..Len(playedTiles) :
    \E n \in Neighbors(playedTiles[p]) :
      /\ n[1] >= 0 /\ n[1] < BOARD_SIZE /\ n[2] >= 0 /\ n[2] < BOARD_SIZE
      /\ BoardAt(g.board, n[1], n[2]) # NoTile

ERR_NONE == ""
ERR_NO_TILES == "No tiles played"
ERR_CENTER == "First word must cross the center square"
ERR_LINE == "Tiles must be in a single row or column"
ERR_CONTIGUOUS == "Tiles must be contiguous"
ERR_CONNECT == "New tiles must connect to existing tiles"
ERR_TURN == "Not your turn"
ERR_BAG == "Not enough tiles in bag"
ERR_FULL == "Room is full"
ERR_NOT_FOUND == "Room not found"
ERR_STARTED == "Game already started"
ERR_HOST == "Only host can start the game"

(* validateMove(playedTiles).error, ERR_NONE for {valid: true} *)
(* a validateMove that looks at the line before it looks at the center *)
validateMoveLineFirst(g, playedTiles) ==
  IF Len(playedTiles) = 0 THEN ERR_NO_TILES
  ELSE IF notSingleLine(playedTiles) THEN ERR_LINE
  ELSE IF ~g.firstMoveMade /\ ~crossesCenter(playedTiles) THEN ERR_CENTER
  ELSE IF hasGap(g, playedTiles) THEN ERR_CONTIGUOUS
  ELSE IF g.firstMoveMade /\ ~isConnected(g, playedTiles) THEN ERR_CONNECT
  ELSE ERR_NONE

validateMove(g, playedTiles) ==
  IF Len(playedTiles) = 0 THEN ERR_NO_TILES
  ELSE IF ~g.firstMoveMade /\ ~crossesCenter(playedTiles) THEN ERR_CENTER
  ELSE IF notSingleLine(playedTiles) THEN ERR_LINE
  ELSE IF hasGap(g, playedTiles) THEN ERR_CONTIGUOUS
  ELSE IF g.firstMoveMade /\ ~isConnected(g, playedTiles) THEN ERR_CONNECT
  ELSE ERR_NONE

----------------------------------------------------------------------------
(* calculateScore *)

(* a getPremiumSquare that does not look at the board *)
getPremiumSquareAlways(g, row, col) ==
  IF <<row, col>> \in PREMIUM_TW THEN "TW"
  ELSE IF <<row, col>> \in PREMIUM_DW THEN "DW"
  ELSE IF <<row, col>> \in PREMIUM_TL THEN "TL"
  ELSE IF <<row, col>> \in PREMIUM_DL THEN "DL"
  ELSE ""

(* getPremiumSquare(row, col): "" for null *)
getPremiumSquare(g, row, col) ==
  IF BoardAt(g.board, row, col) # NoTile THEN ""
  ELSE IF <<row, col>> \in PREMIUM_TW THEN "TW"
  ELSE IF <<row, col>> \in PREMIUM_DW THEN "DW"
  ELSE IF <<row, col>> \in PREMIUM_TL THEN "TL"
  ELSE IF <<row, col>> \in PREMIUM_DL THEN "DL"
  ELSE ""

RECURSIVE scoreLoop(_, _, _)
(* The first loop of calculateScore from 0-based position i on:            *)
(* [totalScore, wordMultiplier] after the last played tile.                *)
scoreLoop(g, playedTiles, acc) ==
  IF acc.i >= Len(playedTiles) THEN acc
  ELSE LET pt == playedTiles[acc.i + 1]
           premiumKey == getPremiumSquare(g, pt.row, pt.col)
           tileScore == TileValue(pt.tile) *
                          (IF premiumKey = "DL" THEN 2
                           ELSE IF premiumKey = "TL" THEN 3 ELSE 1)
       IN scoreLoop(g, playedTiles,
                    [i |-> acc.i + 1,
                     totalScore |-> acc.totalScore + tileScore,
                     wordMultiplier |-> acc.wordMultiplier *
                        (IF premiumKey = "DW" THEN 2
                         ELSE IF premiumKey = "TW" THEN 3 ELSE 1)])

RECURSIVE lineLoop(_, _, _, _)
(* The second loop: the values of the tiles already on the line, from      *)
(* index at to index last, at the indices no played tile covers.           *)
lineLoop(g, playedTiles, at, last) ==
  IF at > last THEN 0
  ELSE LET byRow == Cardinality(RowsOf(playedTiles)) = 1
           cell == IF byRow THEN BoardAt(g.board, playedTiles[1].row, at)
                   ELSE BoardAt(g.board, at, playedTiles[1].col)
           covered == \E p \in 1..Len(playedTiles) :
                        IF byRow THEN playedTiles[p].col = at
                        ELSE playedTiles[p].row = at
       IN (IF cell # NoTile /\ ~covered THEN TileValue(cell) ELSE 0)
          + lineLoop(g, playedTiles, at + 1, last)

lineScore(g, playedTiles) ==
  IF Len(playedTiles) = 0 THEN 0
  ELSE IF Cardinality(RowsOf(playedTiles)) = 1
       THEN lineLoop(g, playedTiles, MinOf(ColsOf(playedTiles)), MaxOf(ColsOf(playedTiles)))
       ELSE lineLoop(g, playedTiles, MinOf(RowsOf(playedTiles)), MaxOf(RowsOf(playedTiles)))

(* a calculateScore that adds the bonus before it multiplies *)
calculateScoreBonusFirst(g, playedTiles) ==
  LET placed == scoreLoop(g, playedTiles, [i |-> 0, totalScore |-> 0, wordMultiplier |-> 1])
      bonus == IF Len(playedTiles) = BINGO_TILES THEN BINGO_BONUS ELSE 0
  IN (placed.totalScore + lineScore(g, playedTiles) + bonus) * placed.wordMultiplier

calculateScore(g, playedTiles) ==
  LET placed == scoreLoop(g, playedTiles, [i |-> 0, totalScore |-> 0, wordMultiplier |-> 1])
      totalScore == (placed.totalScore + lineScore(g, playedTiles)) * placed.wordMultiplier
  IN IF Len(playedTiles) = BINGO_TILES THEN totalScore + BINGO_BONUS ELSE totalScore

----------------------------------------------------------------------------
(* playMove, passTurn, exchangeTiles.  Each yields the returned object    *)
(* {success, error, score} and the game as the call leaves it.             *)

RECURSIVE placeTiles(_, _, _)
placeTiles(board, playedTiles, i) ==
  IF i >= Len(playedTiles) THEN board
  ELSE LET pt == playedTiles[i + 1]
       IN placeTiles(BoardPut(board, pt.row, pt.col, pt.tile), playedTiles, i + 1)

(* a turn check that only looks the player up *)
notYourTurnMembersOnly(g, playerId) == FindIndex(g.players, playerId) = -1

(* !player || this.getCurrentPlayer().id !== playerId *)
notYourTurn(g, playerId) ==
  \/ FindIndex(g.players, playerId) = -1
  \/ getCurrentPlayer(g).id # playerId

Result(success, error, score, game) ==
  [success |-> success, error |-> error, score |-> score, game |-> game]

(* playMove once the move is validated: the score is calculated, the      *)
(* tiles are placed, the player (the first roster entry of playerId) is    *)
(* credited, loses the played ids and is dealt as many tiles as it played  *)
commitMove(g, playerId, playedTiles) ==
  LET p == FindIndex(g.players, playerId)
      score == calculateScore(g, playedTiles)
      playedTileIds == { playedTiles[i].tile : i \in 1..Len(playedTiles) }
      placed == [g EXCEPT
                   !.board = placeTiles(@, playedTiles, 0),
                   !.players[p + 1].score = @ + score,
                   !.players[p + 1].tiles =
                      SelectSeq(@, LAMBDA t : t \notin playedTileIds)]
      dealt == dealTiles(placed, p, Len(playedTiles))
  IN Result(TRUE, ERR_NONE, score, nextTurn([dealt EXCEPT !.firstMoveMade = TRUE]))

(* a playMove that writes the move before it validates it *)
playMoveCommitFirst(g, playerId, playedTiles) ==
  IF notYourTurn(g, playerId) THEN Result(FALSE, ERR_TURN, 0, g)
  ELSE IF validateMove(g, playedTiles) # ERR_NONE
       THEN Result(FALSE, validateMove(g, playedTiles), 0,
                   commitMove(g, playerId, playedTiles).game)
  ELSE commitMove(g, playerId, playedTiles)

playMove(g, playerId, playedTiles) ==
  IF notYourTurn(g, playerId) THEN Result(FALSE, ERR_TURN, 0, g)
  ELSE IF validateMove(g, playedTiles) # ERR_NONE
       THEN Result(FALSE, validateMove(g, playedTiles), 0, g)
  ELSE commitMove(g, playerId, playedTiles)

passTurn(g, playerId) ==
  IF notYourTurn(g, playerId) THEN Result(FALSE, ERR_TURN, 0, g)
  ELSE Result(TRUE, ERR_NONE, 0, nextTurn(g))

(* exchangeTiles(playerId, tileIds); k is the random stream of the shuffle *)
exchangeTiles(g, playerId, tileIds, k) ==
  IF notYourTurn(g, playerId) THEN Result(FALSE, ERR_TURN, 0, g)
  ELSE IF Len(g.tileBag) < Len(tileIds) THEN Result(FALSE, ERR_BAG, 0, g)
  ELSE LET p == FindIndex(g.players, playerId)
           ids == SeqToSet(tileIds)
           exchangedTiles == SelectSeq(g.players[p + 1].tiles, LAMBDA t : t \in ids)
           returned == [g EXCEPT
                          !.players[p + 1].tiles = SelectSeq(@, LAMBDA t : t \notin ids),
                          !.tileBag = shuffle(@ \o exchangedTiles, k)]
       IN Result(TRUE, ERR_NONE, 0, nextTurn(dealTiles(returned, p, Len(exchangedTiles))))

----------------------------------------------------------------------------
(* The views *)

(* a public view whose player summaries carry the racks *)
getGameStateWithTiles(g) ==
  [roomId |-> g.roomId,
   players |-> [i \in 1..Len(g.players) |->
                  [id |-> g.players[i].id,
                   name |-> g.players[i].name,
                   score |-> g.players[i].score,
                   tiles |-> g.players[i].tiles,
                   tileCount |-> Len(g.players[i].tiles),
                   isHost |-> g.players[i].isHost]],
   currentPlayerIndex |-> g.currentPlayerIndex,
   board |-> g.board,
   gameStarted |-> g.gameStarted,
   tilesRemaining |-> Len(g.tileBag),
   hostId |-> g.hostId]

getGameState(g) ==
  [roomId |-> g.roomId,
   players |-> [i \in 1..Len(g.players) |->
                  [id |-> g.players[i].id,
                   name |-> g.players[i].name,
                   score |-> g.players[i].score,
                   tileCount |-> Len(g.players[i].tiles),
                   isHost |-> g.players[i].isHost]],
   currentPlayerIndex |-> g.currentPlayerIndex,
   board |-> g.board,
   gameStarted |-> g.gameStarted,
   tilesRemaining |-> Len(g.tileBag),
   hostId |-> g.hostId]

NoPlayerState == [null |-> TRUE]

getPlayerState(g, playerId) ==
  IF FindIndex(g.players, playerId) = -1 THEN NoPlayerState
  ELSE [tiles |-> g.players[FindIndex(g.players, playerId) + 1].tiles]

----------------------------------------------------------------------------
(* The socket.io layer.  The server is single-threaded: an event arrives   *)
(* (Receive), its handler runs to completion, and the server is idle again *)
(* (Return) before the next event is dispatched.                           *)

(* a registry whose every entry is the one game object *)
PutRoomEverywhere(rooms, roomId, game) ==
  [r \in DOMAIN rooms \cup {roomId} |-> game]

(* gameRooms[roomId] = game, delete gameRooms[roomId] *)
PutRoom(rooms, roomId, game) ==
  [r \in DOMAIN rooms \cup {roomId} |-> IF r = roomId THEN game ELSE rooms[r]]

(* the sockets an io.to(roomId).emit reaches *)
RoomSockets(joined, roomId) == { s \in Sockets : <<s, roomId>> \in joined }

(* sent, after emitting payload[s] to every socket s of targets about roomId *)
Emit(sent, targets, roomId, payload) ==
  [x \in DOMAIN sent \cup { <<s, roomId>> : s \in targets } |->
     IF x[2] = roomId /\ x[1] \in targets THEN payload[x[1]] ELSE sent[x]]

(* the payload of an emit that sends everyone the same view *)
ToAll(view) == [s \in Sockets |-> view]

(* the payload of the playerState emits *)
PlayerStates(game) == [s \in Sockets |-> getPlayerState(game, s)]

(* the sockets the loop io.to(player.id).emit over game.players reaches *)
PlayerSockets(g, live) == { s \in live : FindIndex(g.players, s) # -1 }

Request(op, socket, roomId, playedTiles, tileIds) ==
  [op |-> op, socket |-> socket, roomId |-> roomId,
   playedTiles |-> playedTiles, tileIds |-> tileIds]

Reply(event, message, score) ==
  [event |-> event, message |-> message, score |-> score]

NoRoom == ""
NoRequest == Request("idle", NoSocket, NoRoom, <<>>, <<>>)
NoReply == Reply("", ERR_NONE, 0)

Init ==
  /\ gameRooms = <<>>
  /\ connected = Sockets
  /\ socketRooms = {}
  /\ sentGameState = <<>>
  /\ sentPlayerState = <<>>
  /\ request = NoRequest
  /\ reply = NoReply
  /\ events = 0

(* the event op is being dispatched and its handler has not run yet *)
Dispatched(op) == request.op = op /\ reply = NoReply

(* socket.join(roomId), the roomJoined event to the socket and the         *)
(* gameStateUpdate to the room: the tail of createRoom and of joinRoom     *)
Joined(game, socket, roomId) ==
  /\ gameRooms' = PutRoom(gameRooms, roomId, game)
  /\ socketRooms' = socketRooms \cup {<<socket, roomId>>}
  /\ sentGameState' =
       Emit(sentGameState, RoomSockets(socketRooms', roomId), roomId,
            ToAll(getGameState(game)))
  /\ sentPlayerState' =
       Emit(sentPlayerState, {socket}, roomId, PlayerStates(game))
  /\ reply' = Reply("roomJoined", ERR_NONE, 0)

(* socket.emit('error', {message}): nothing else happens *)
Refused(message) ==
  /\ reply' = Reply("error", message, 0)
  /\ UNCHANGED <<gameRooms, socketRooms, sentGameState, sentPlayerState>>

(* socket.emit('error', {message}) after a call that left the game as game *)
Rejected(game, roomId, message) ==
  /\ gameRooms' = PutRoom(gameRooms, roomId, game)
  /\ reply' = Reply("error", message, 0)
  /\ UNCHANGED <<socketRooms, sentGameState, sentPlayerState>>

(* a handler that returns without emitting *)
Ignored ==
  /\ reply' = Reply("none", ERR_NONE, 0)
  /\ UNCHANGED <<gameRooms, socketRooms, sentGameState, sentPlayerState>>

(* socket.on('createRoom'); k is the random stream of a new game's shuffle *)
createRoom(k) ==
  /\ Dispatched("createRoom")
  /\ UNCHANGED <<connected, request, events>>
  /\ LET roomId == request.roomId
         game == IF roomId \in DOMAIN gameRooms THEN gameRooms[roomId]
                 ELSE NewGame(roomId, k)
     IN IF addPlayerOk(game)
        THEN Joined(addPlayer(game, request.socket), request.socket, roomId)
        ELSE Rejected(addPlayer(game, request.socket), roomId, ERR_FULL)

(* socket.on('joinRoom') *)
joinRoom ==
  /\ Dispatched("joinRoom")
  /\ UNCHANGED <<connected, request, events>>
  /\ LET roomId == request.roomId IN
     IF roomId \notin DOMAIN gameRooms THEN Refused(ERR_NOT_FOUND)
     ELSE IF gameRooms[roomId].gameStarted THEN Refused(ERR_STARTED)
     ELSE IF addPlayerOk(gameRooms[roomId])
          THEN Joined(addPlayer(gameRooms[roomId], request.socket),
                      request.socket, roomId)
          ELSE Rejected(addPlayer(gameRooms[roomId], request.socket), roomId,
                        ERR_FULL)

(* gameStateUpdate (or gameStarted) to the room *)
Broadcast(game, roomId) ==
  /\ gameRooms' = PutRoom(gameRooms, roomId, game)
  /\ sentGameState' =
       Emit(sentGameState, RoomSockets(socketRooms, roomId), roomId,
            ToAll(getGameState(game)))

(* playerState to the requesting socket alone *)
SendOwnPlayerState(game, roomId) ==
  sentPlayerState' =
    Emit(sentPlayerState, {request.socket}, roomId, PlayerStates(game))

(* playerState to every player of the game *)
SendAllPlayerStates(game, roomId) ==
  sentPlayerState' =
    Emit(sentPlayerState, PlayerSockets(game, connected), roomId,
         PlayerStates(game))

(* socket.on('startGame') *)
startGameHandler ==
  /\ Dispatched("startGame")
  /\ UNCHANGED <<connected, request, events>>
  /\ LET roomId == request.roomId IN
     IF roomId \notin DOMAIN gameRooms THEN Ignored
     ELSE IF gameRooms[roomId].hostId # request.socket THEN Refused(ERR_HOST)
     ELSE IF startGameOk(gameRooms[roomId])
          THEN /\ Broadcast(startGame(gameRooms[roomId]), roomId)
               /\ SendAllPlayerStates(startGame(gameRooms[roomId]), roomId)
               /\ reply' = Reply("gameStarted", ERR_NONE, 0)
               /\ UNCHANGED socketRooms
          ELSE /\ gameRooms' = PutRoom(gameRooms, roomId, startGame(gameRooms[roomId]))
               /\ reply' = Reply("none", ERR_NONE, 0)
               /\ UNCHANGED <<socketRooms, sentGameState, sentPlayerState>>

(* socket.on('playMove') *)
playMoveHandler ==
  /\ Dispatched("playMove")
  /\ UNCHANGED <<connected, request, events>>
  /\ LET roomId == request.roomId IN
     IF roomId \notin DOMAIN gameRooms THEN Ignored
     ELSE LET result == playMove(gameRooms[roomId], request.socket,
                                 request.playedTiles)
          IN IF result.success
             THEN /\ Broadcast(result.game, roomId)
                  /\ SendAllPlayerStates(result.game, roomId)
                  /\ reply' = Reply("moveCompleted", ERR_NONE, result.score)
                  /\ UNCHANGED socketRooms
             ELSE Rejected(result.game, roomId, result.error)

(* socket.on('passTurn') *)
passTurnHandler ==
  /\ Dispatched("passTurn")
  /\ UNCHANGED <<connected, request, events>>
  /\ LET roomId == request.roomId IN
     IF roomId \notin DOMAIN gameRooms THEN Ignored
     ELSE LET result == passTurn(gameRooms[roomId], request.socket)
          IN IF result.success
             THEN /\ Broadcast(result.game, roomId)
                  /\ reply' = Reply("playerPassed", ERR_NONE, 0)
                  /\ UNCHANGED <<socketRooms, sentPlayerState>>
             ELSE Rejected(result.game, roomId, result.error)

(* socket.on('exchangeTiles'); k is the random stream of the shuffle *)
exchangeTilesHandler(k) ==
  /\ Dispatched("exchangeTiles")
  /\ UNCHANGED <<connected, request, events>>
  /\ LET roomId == request.roomId IN
     IF roomId \notin DOMAIN gameRooms THEN Ignored
     ELSE LET result == exchangeTiles(gameRooms[roomId], request.socket,
                                      request.tileIds, k)
          IN IF result.success
             THEN /\ Broadcast(result.game, roomId)
                  /\ sentPlayerState' =
                       Emit(sentPlayerState, {request.socket}, roomId,
                            PlayerStates(result.game))
                  /\ reply' = Reply("playerState", ERR_NONE, 0)
                  /\ UNCHANGED socketRooms
             ELSE Rejected(result.game, roomId, result.error)

(* a disconnect handler that keeps the rooms it has emptied *)
KeptRoomsAll(removed) == DOMAIN removed

(* the rooms the disconnect handler does not delete: game.players.length   *)
(* is not 0 after removePlayer                                             *)
KeptRooms(removed) == { r \in DOMAIN removed : Len(removed[r].players) # 0 }

(* socket.on('disconnect'): every room loses the socket's first roster     *)
(* entry; an emptied room is deleted, every other room is sent its state.  *)
(* The socket has left its rooms when the event fires.                     *)
disconnect ==
  /\ Dispatched("disconnect")
  /\ UNCHANGED <<request, events>>
  /\ reply' = Reply("none", ERR_NONE, 0)
  /\ connected' = connected \ {request.socket}
  /\ socketRooms' = { x \in socketRooms : x[1] # request.socket }
  /\ LET removed == [r \in DOMAIN gameRooms |->
                       removePlayer(gameRooms[r], request.socket)]
         kept == KeptRooms(removed)
     IN /\ gameRooms' = [r \in kept |-> removed[r]]
        /\ sentGameState' =
             [x \in { y \in DOMAIN sentGameState : y[1] # request.socket }
                      \cup { y \in socketRooms' : y[2] \in kept } |->
                IF x \in socketRooms' /\ x[2] \in kept
                THEN getGameState(removed[x[2]])
                ELSE sentGameState[x]]
        /\ sentPlayerState' =
             [x \in { y \in DOMAIN sentPlayerState : y[1] # request.socket } |->
                sentPlayerState[x]]

(* the handler has returned: the server is idle *)
Return ==
  /\ request # NoRequest
  /\ reply # NoReply
  /\ request' = NoRequest
  /\ reply' = NoReply
  /\ UNCHANGED <<gameRooms, connected, socketRooms, sentGameState,
                 sentPlayerState, events>>

----------------------------------------------------------------------------
(* The requests the clients send.  A client builds playedTiles from the    *)
(* tiles it holds: those of its own rack.                                  *)

(* the rack the client of socket holds for roomId: its playerState *)
RackOf(socket, roomId) ==
  IF roomId \in DOMAIN gameRooms /\ FindIndex(gameRooms[roomId].players, socket) # -1
  THEN getPlayerState(gameRooms[roomId], socket).tiles
  ELSE <<>>

(* tiles laid from (row, col) on along a row ("row"), a column ("col") or  *)
(* a diagonal ("diag"), one cell left out after the first skip tiles       *)
Line(row, col, dir, tiles, skip) ==
  [i \in 1..Len(tiles) |->
     LET off == (i - 1) + (IF skip > 0 /\ i > skip THEN 1 ELSE 0)
     IN [row |-> IF dir = "row" THEN row ELSE row + off,
         col |-> IF dir = "col" THEN col ELSE col + off,
         tile |-> tiles[i]]]

InBoard(playedTiles) ==
  \A i \in 1..Len(playedTiles) :
    playedTiles[i].row \in Coords /\ playedTiles[i].col \in Coords

(* the well-formed placements: the first n tiles of the rack in a line    *)
(* along a row or a column from an anchor                                  *)
Lines(rack, anchors, maxLen) ==
  { Line(a[1], a[2], d, SubSeq(rack, 1, n), 0) :
      a \in anchors, d \in {"row", "col"}, n \in 1..Min(maxLen, Len(rack)) }

(* the other placements: no tiles at all; up to maxLen tiles in a line     *)
(* with one cell left out; two tiles on a diagonal; the first tile of the  *)
(* rack sent for two cells; two tiles sent for one cell                    *)
Malformed(rack, anchors, maxLen) ==
  {<<>>}
  \cup UNION { { Line(a[1], a[2], d, SubSeq(rack, 1, n), skip) :
                   a \in anchors, d \in {"row", "col"}, skip \in 1..(n - 1) } :
               n \in 2..Min(maxLen, Len(rack)) }
  \cup { Line(a[1], a[2], "diag", SubSeq(rack, 1, 2), 0) :
           a \in anchors, n \in 2..Min(2, Len(rack)) }
  \cup { Line(a[1], a[2], "row", <<rack[1], rack[1]>>, 0) :
           a \in anchors, n \in 1..Min(1, Len(rack)) }
  \cup { [i \in 1..2 |-> [row |-> a[1], col |-> a[2], tile |-> rack[i]]] :
           a \in anchors, n \in 2..Min(2, Len(rack)) }

(* the placements a client may send *)
MoveRequests(rack, anchors, maxLen, badAnchors, badLen) ==
  { pts \in Lines(rack, anchors, maxLen) \cup Malformed(rack, badAnchors, badLen) :
      InBoard(pts) }

(* the tileIds a client may send: the first n tiles of its rack, or ids of *)
(* no tile at all, as many as tiles were minted                            *)
ExchangeRequests(rack, maxLen) ==
  { SubSeq(rack, 1, n) : n \in 0..Min(maxLen, Len(rack)) }
  \cup { [i \in 1..NumTiles |-> NoTile] }

(* an event arrives while the server is idle *)
Arrive(event) ==
  /\ request = NoRequest
  /\ request' = event
  /\ events' = events + 1
  /\ UNCHANGED <<gameRooms, connected, socketRooms, sentGameState,
                 sentPlayerState, reply>>

(* the cells the placements sent start from: the center and the cells      *)
(* right of it and below it                                                *)
Anchors == { <<CENTER, CENTER>>, <<CENTER, CENTER + 1>>, <<CENTER + 1, CENTER>> }

(* The events the connected clients send: any event about a room, by any   *)
(* socket, in any order; placements of one or two tiles of the sender's    *)
(* rack, exchanges of at most one.                                         *)
Receive ==
  /\ request = NoRequest
  /\ events < MaxEvents
  /\ \E socket \in connected, roomId \in Rooms :
    \/ Arrive(Request("createRoom", socket, roomId, <<>>, <<>>))
    \/ Arrive(Request("joinRoom", socket, roomId, <<>>, <<>>))
    \/ Arrive(Request("startGame", socket, roomId, <<>>, <<>>))
    \/ \E playedTiles \in MoveRequests(RackOf(socket, roomId), Anchors, 2,
                                       {<<CENTER, CENTER>>}, 2) :
         Arrive(Request("playMove", socket, roomId, playedTiles, <<>>))
    \/ Arrive(Request("passTurn", socket, roomId, <<>>, <<>>))
    \/ \E tileIds \in ExchangeRequests(RackOf(socket, roomId), 1) :
         Arrive(Request("exchangeTiles", socket, roomId, <<>>, tileIds))
    \/ Arrive(Request("disconnect", socket, NoRoom, <<>>, <<>>))

Handle ==
  \/ \E k \in Shuffles : createRoom(k)
  \/ joinRoom
  \/ startGameHandler
  \/ playMoveHandler
  \/ passTurnHandler
  \/ \E k \in Shuffles : exchangeTilesHandler(k)
  \/ disconnect

Next == Receive \/ Handle \/ Return

Spec == Init /\ [][Next]_vars

----------------------------------------------------------------------------
(* Moves.  What playMove answers is a function of the session and of the   *)
(* placement sent.  SpecMove draws a session from Positions, sessions of   *)
(* two players as startGame and playMove leave them, and dispatches one    *)
(* playMove event to it: lines of one to seven tiles of the sender's rack  *)
(* from any cell of the five rows around the center, and malformed         *)
(* placements from the same cells.                                         *)

(* the game of sockets 1 and 2 once it is started *)
Opened(k) == startGame(addPlayer(addPlayer(NewGame("r1", k), 1), 2))

(* g after its current player has laid the first n tiles of its rack from  *)
(* (row, col) on                                                           *)
After(g, row, col, dir, n, skip) ==
  playMove(g, getCurrentPlayer(g).id,
           Line(row, col, dir, SubSeq(getCurrentPlayer(g).tiles, 1, n), skip)).game

Positions ==
  UNION { LET opened == Opened(k)
              center == After(opened, CENTER, CENTER, "row", 1, 0)
              row7 == After(opened, CENTER, 3, "row", 7, 0)
              col7 == After(opened, 5, CENTER, "col", 3, 0)
          IN { opened, center, row7, col7,
               After(center, CENTER, 6, "row", 2, 1),
               After(col7, CENTER, 8, "row", 2, 0) }
        : k \in Shuffles }

(* the cells of the five rows around the center *)
Band == { c \in Coords \X Coords : c[1] >= CENTER - 2 /\ c[1] <= CENTER + 2 }

InitMove ==
  \E g \in Positions :
    /\ gameRooms = PutRoom(<<>>, "r1", g)
    /\ connected = Sockets
    /\ socketRooms = { <<s, "r1">> : s \in PlayerSockets(g, Sockets) }
    /\ sentGameState = [x \in socketRooms |-> getGameState(g)]
    /\ sentPlayerState = [x \in socketRooms |-> getPlayerState(g, x[1])]
    /\ request = NoRequest
    /\ reply = NoReply
    /\ events = 0

ReceiveMove ==
  /\ request = NoRequest
  /\ \E socket \in connected :
       \E playedTiles \in MoveRequests(RackOf(socket, "r1"), Band, RACK_SIZE,
                                       Band, 3) :
         Arrive(Request("playMove", socket, "r1", playedTiles, <<>>))

NextMove == ReceiveMove \/ playMoveHandler

SpecMove == InitMove /\ [][NextMove]_vars

----------------------------------------------------------------------------
(* Properties of the sessions, checked under Spec.                         *)

RECURSIVE SumOf(_, _)
(* the sum of f[x] over the x of S *)
SumOf(f, S) ==
  IF S = {} THEN 0
  ELSE LET x == CHOOSE y \in S : TRUE IN f[x] + SumOf(f, S \ {x})

RECURSIVE ProductOf(_, _)
(* the product of f[x] over the x of S *)
ProductOf(f, S) ==
  IF S = {} THEN 1
  ELSE LET x == CHOOSE y \in S : TRUE IN f[x] * ProductOf(f, S \ {x})

(* no event is being dispatched: every handler has run to completion *)
Idle == request = NoRequest

(* the handler of the dispatched event runs in this step *)
Handled == reply = NoReply /\ reply' # NoReply

TurnOps == {"playMove", "passTurn", "exchangeTiles"}

(* what the server emits when a move, a pass, an exchange succeeded *)
Successes == {"moveCompleted", "playerPassed", "playerState"}

(* the handler of a move, a pass or an exchange about an existing room     *)
(* runs in this step                                                       *)
TurnRequest ==
  Handled /\ request.op \in TurnOps /\ request.roomId \in DOMAIN gameRooms

(* socket is the player at index currentPlayerIndex of the roster *)
IsCurrent(g, socket) ==
  /\ g.currentPlayerIndex < Len(g.players)
  /\ g.players[g.currentPlayerIndex + 1].id = socket

(* the places a tile can be in: a position of the bag, a position of a     *)
(* rack, a cell of the board                                               *)
Places(g) ==
  { <<"bag", i, 0>> : i \in 1..Len(g.tileBag) }
  \cup UNION { { <<"rack", p, i>> : i \in 1..Len(g.players[p].tiles) } :
               p \in 1..Len(g.players) }
  \cup { <<"board", c[1], c[2]>> : c \in DOMAIN g.board }

TileAt(g, place) ==
  IF place[1] = "bag" THEN g.tileBag[place[2]]
  ELSE IF place[1] = "rack" THEN g.players[place[2]].tiles[place[3]]
  ELSE g.board[<<place[2], place[3]>>]

RackTiles(g) ==
  SumOf([p \in 1..Len(g.players) |-> Len(g.players[p].tiles)], 1..Len(g.players))

(* C1: tile conservation.  In every reachable state of every session the   *)
(* tiles in the bag, in the racks and on the board are 100 together        *)
(* (|bag| + sum of rack sizes + occupied cells = 100), and no tile id is   *)
(* in two places.  The code does not keep this: see C1_TileConservation's  *)
(* violation.                                                              *)
C1_TileConservation ==
  \A r \in DOMAIN gameRooms :
    LET g == gameRooms[r] IN
      /\ Len(g.tileBag) + RackTiles(g) + Cardinality(DOMAIN g.board) = NumTiles
      /\ Cardinality({ TileAt(g, place) : place \in Places(g) })
           = Cardinality(Places(g))

(* C2: only the current-turn player acts.  When playMove, passTurn or      *)
(* exchangeTiles is handled, it succeeds only if the requesting socket is  *)
(* the player at index currentPlayerIndex; a request of any other socket,  *)
(* in the roster or not, is answered with the error "Not your turn" and    *)
(* changes no session.                                                     *)
C2_OnlyCurrentPlayerActs ==
  [][ TurnRequest =>
        LET g == gameRooms[request.roomId] IN
          /\ reply'.event \in Successes => IsCurrent(g, request.socket)
          /\ ~IsCurrent(g, request.socket) =>
               /\ reply' = Reply("error", ERR_TURN, 0)
               /\ gameRooms' = gameRooms ]_vars

(* a player of a started game that is not the current one asked for a move, *)
(* a pass or an exchange and was refused                                   *)
C2_Witness ==
  /\ request.op \in TurnOps
  /\ reply = Reply("error", ERR_TURN, 0)
  /\ request.roomId \in DOMAIN gameRooms
  /\ LET g == gameRooms[request.roomId] IN
       /\ g.gameStarted
       /\ FindIndex(g.players, request.socket) # -1
       /\ ~IsCurrent(g, request.socket)

(* C3: checked before commit.  Every operation the server rejects with an  *)
(* error (a move failing a validation check, an exchange of more tiles     *)
(* than the bag holds, an add to a full room, a join to a missing or       *)
(* started room, a request out of turn or by a non-host) leaves every      *)
(* session exactly as it was: board, bag, racks, scores, turn, started,    *)
(* opening-move flag, roster, host.                                        *)
C3_RejectedChangesNothing ==
  [][ (Handled /\ reply'.event = "error") => gameRooms' = gameRooms ]_vars

(* the current player of a started game asked to exchange more tiles than  *)
(* the bag holds and was refused                                           *)
C3_Witness ==
  /\ request.op = "exchangeTiles"
  /\ reply = Reply("error", ERR_BAG, 0)
  /\ request.roomId \in DOMAIN gameRooms
  /\ gameRooms[request.roomId].gameStarted
  /\ Len(gameRooms[request.roomId].tileBag) < Len(request.tileIds)

(* C4: host uniqueness.  In every reachable session with a non-empty       *)
(* roster exactly one player has isHost = TRUE, and hostId, which          *)
(* startGame's authorization and the public view use, is that player's id. *)
C4_HostUnique ==
  \A r \in DOMAIN gameRooms :
    LET g == gameRooms[r]
        hosts == { i \in 1..Len(g.players) : g.players[i].isHost }
    IN Len(g.players) > 0 =>
         /\ Cardinality(hosts) = 1
         /\ \A i \in hosts : g.players[i].id = g.hostId
         /\ getGameState(g).hostId = g.hostId

(* the host has left and the player that joined after it is the host now *)
C4_Witness ==
  \E r \in DOMAIN gameRooms :
    LET g == gameRooms[r] IN
      /\ Len(g.players) > 0
      /\ g.players[1].isHost
      /\ g.players[1].name # 1
      /\ g.hostId = g.players[1].id

RECURSIVE Racks(_, _)
(* the racks of the players i, i + 1, ... one after the other *)
Racks(g, i) ==
  IF i > Len(g.players) THEN <<>>
  ELSE g.players[i].tiles \o Racks(g, i + 1)

(* the tiles the public view is to hide: the bag in its order, the racks *)
Hidden(g) == g.tileBag \o Racks(g, 1)

RECURSIVE RackStart(_, _)
(* how many tiles of Hidden(g) come before the rack of player i *)
RackStart(g, i) ==
  IF i <= 1 THEN Len(g.tileBag)
  ELSE RackStart(g, i - 1) + Len(g.players[i - 1].tiles)

(* the session that differs from g only in which tiles are in the bag and  *)
(* the racks, and in what order: they hold the tiles of hidden, the bag    *)
(* and every rack as long as in g                                          *)
Rehide(g, hidden) ==
  [g EXCEPT
     !.tileBag = SubSeq(hidden, 1, Len(g.tileBag)),
     !.players = [i \in 1..Len(g.players) |->
                    [g.players[i] EXCEPT
                       !.tiles = SubSeq(hidden, RackStart(g, i) + 1,
                                        RackStart(g, i) + Len(g.players[i].tiles))]]]

(* rearrangements of the hidden tiles: rotated by one place, which moves   *)
(* a tile between the bag and every rack, and the first two swapped (the   *)
(* two generate every permutation)                                         *)
Rearranged(hidden) ==
  IF Len(hidden) < 2 THEN {hidden}
  ELSE { [i \in 1..Len(hidden) |-> hidden[(i % Len(hidden)) + 1]],
         [hidden EXCEPT ![1] = hidden[2], ![2] = hidden[1]] }

(* C5: privacy of the public view.  The public view of a session is a      *)
(* function of the roster summaries (id, name, score, tile count, host     *)
(* flag), currentPlayerIndex, board, gameStarted, the bag count and hostId *)
(* only: a session that differs only in which tiles are in the racks (same *)
(* rack sizes) and in the bag order from a session the server holds        *)
(* between two events has the same public view, and that view is what the  *)
(* room was broadcast.                                                     *)
C5_PublicViewHidesRacks ==
  Idle =>
    \A r \in DOMAIN gameRooms :
      LET g == gameRooms[r]
          view == getGameState(g)
      IN /\ \A hidden \in Rearranged(Hidden(g)) :
              getGameState(Rehide(g, hidden)) = view
         /\ \A s \in RoomSockets(socketRooms, r) : sentGameState[<<s, r>>] = view

(* a started session whose racks hold tiles, and a session with other      *)
(* tiles in its racks and the same public view                             *)
C5_Witness ==
  Idle /\ \E r \in DOMAIN gameRooms :
    LET g == gameRooms[r] IN
      /\ g.gameStarted
      /\ \E hidden \in Rearranged(Hidden(g)) :
           /\ \E i \in 1..Len(g.players) :
                /\ Len(g.players[i].tiles) = RACK_SIZE
                /\ SeqToSet(Rehide(g, hidden).players[i].tiles)
                     # SeqToSet(g.players[i].tiles)
           /\ getGameState(Rehide(g, hidden)) = getGameState(g)

RECURSIVE PassRound(_, _)
(* the session after n passes, each by the player whose turn it is *)
PassRound(g, n) ==
  IF n <= 0 THEN g
  ELSE PassRound(passTurn(g, getCurrentPlayer(g).id).game, n - 1)

(* C10: turn rotation.  Every successful pass, move or exchange advances   *)
(* currentPlayerIndex by exactly one position modulo the player count; so  *)
(* in a session of n players n passes, each by the player whose turn it    *)
(* is, bring currentPlayerIndex back to its value.                         *)
C10_TurnRotation ==
  /\ [][ (TurnRequest /\ reply'.event \in Successes) =>
           LET g == gameRooms[request.roomId] IN
             /\ Len(gameRooms'[request.roomId].players) = Len(g.players)
             /\ gameRooms'[request.roomId].currentPlayerIndex
                  = (g.currentPlayerIndex + 1) % Len(g.players) ]_vars
  /\ [](\A r \in DOMAIN gameRooms :
          LET g == gameRooms[r] IN
            /\ PassRound(g, Len(g.players)).currentPlayerIndex
                 = g.currentPlayerIndex
            /\ \A n \in 1..(Len(g.players) - 1) :
                 PassRound(g, n).currentPlayerIndex # g.currentPlayerIndex)

(* in a session of two players the second one has passed, and the turn is  *)
(* the first one's again                                                   *)
C10_Witness ==
  /\ request.op = "passTurn"
  /\ reply.event = "playerPassed"
  /\ request.roomId \in DOMAIN gameRooms
  /\ LET g == gameRooms[request.roomId] IN
       /\ Len(g.players) = 2
       /\ g.players[2].id = request.socket
       /\ g.players[1].id # request.socket
       /\ g.currentPlayerIndex = 0

----------------------------------------------------------------------------
(* Properties of the moves, checked under SpecMove.                        *)

(* the cells a placement names *)
Cells(playedTiles) ==
  { <<playedTiles[i].row, playedTiles[i].col>> : i \in 1..Len(playedTiles) }

OnOneRow(playedTiles) ==
  \A i, j \in 1..Len(playedTiles) : playedTiles[i].row = playedTiles[j].row

OnOneColumn(playedTiles) ==
  \A i, j \in 1..Len(playedTiles) : playedTiles[i].col = playedTiles[j].col

(* the cells of the placement's line, its row when it lies on one row and  *)
(* its column otherwise, from the least to the greatest placed coordinate  *)
Span(playedTiles) ==
  IF OnOneRow(playedTiles)
  THEN { c \in Coords \X Coords :
           /\ c[1] = playedTiles[1].row
           /\ \E i, j \in 1..Len(playedTiles) :
                playedTiles[i].col <= c[2] /\ c[2] <= playedTiles[j].col }
  ELSE { c \in Coords \X Coords :
           /\ c[2] = playedTiles[1].col
           /\ \E i, j \in 1..Len(playedTiles) :
                playedTiles[i].row <= c[1] /\ c[1] <= playedTiles[j].row }

(* the cells of the span that neither a new placement nor a tile of the    *)
(* board covers                                                            *)
Uncovered(g, playedTiles) ==
  Span(playedTiles) \ (Cells(playedTiles) \cup DOMAIN g.board)

(* the handler of a playMove of the current player runs in this step *)
MoveByCurrent ==
  /\ Handled
  /\ request.op = "playMove"
  /\ request.roomId \in DOMAIN gameRooms
  /\ IsCurrent(gameRooms[request.roomId], request.socket)

(* C7: the opening-move gate.  While firstMoveMade is false (and so the    *)
(* board is empty), a move of the current player whose placements do not   *)
(* contain the cell (7,7) is rejected whatever its geometry and changes    *)
(* nothing, and a move that contains (7,7) and lies contiguously on one    *)
(* row or one column succeeds, with no tile on the board to be adjacent to.*)
C7_OpeningGate ==
  [][ (MoveByCurrent /\ ~gameRooms[request.roomId].firstMoveMade) =>
        LET g == gameRooms[request.roomId]
            playedTiles == request.playedTiles
        IN /\ DOMAIN g.board = {}
           /\ <<7, 7>> \notin Cells(playedTiles) =>
                /\ reply'.event = "error"
                /\ Len(playedTiles) > 0 => reply'.message = ERR_CENTER
                /\ gameRooms' = gameRooms
           /\ ( /\ <<7, 7>> \in Cells(playedTiles)
                /\ OnOneRow(playedTiles) \/ OnOneColumn(playedTiles)
                /\ Span(playedTiles) = Cells(playedTiles) ) =>
                /\ reply'.event = "moveCompleted"
                /\ DOMAIN gameRooms'[request.roomId].board = Cells(playedTiles)
                /\ gameRooms'[request.roomId].firstMoveMade ]_vars

(* an opening move of several tiles in an unbroken line on one row that    *)
(* does not reach (7,7) has been rejected                                  *)
C7_Witness ==
  /\ request.op = "playMove"
  /\ reply = Reply("error", ERR_CENTER, 0)
  /\ Len(request.playedTiles) >= 2
  /\ OnOneRow(request.playedTiles)
  /\ Span(request.playedTiles) = Cells(request.playedTiles)
  /\ Cardinality(Cells(request.playedTiles)) = Len(request.playedTiles)
  /\ ~gameRooms[request.roomId].firstMoveMade

(* C8: contiguity.  A move of the current player that reaches the          *)
(* contiguity check (it places a tile, it passes the opening gate, and it  *)
(* lies on a single row or, if it spans several rows, a single column) is  *)
(* rejected with "Tiles must be contiguous" exactly when some cell between *)
(* the least and the greatest placed coordinate along that line is covered *)
(* neither by a new placement nor by a tile already on the board; and the  *)
(* same placement, its one gap filled by a tile on the board, is accepted  *)
(* by this check.                                                          *)
C8_Contiguity ==
  [][ ( /\ MoveByCurrent
        /\ Len(request.playedTiles) > 0
        /\ \/ gameRooms[request.roomId].firstMoveMade
           \/ <<7, 7>> \in Cells(request.playedTiles)
        /\ OnOneRow(request.playedTiles) \/ OnOneColumn(request.playedTiles) ) =>
        LET g == gameRooms[request.roomId]
            playedTiles == request.playedTiles
        IN /\ reply' = Reply("error", ERR_CONTIGUOUS, 0)
                <=> Uncovered(g, playedTiles) # {}
           /\ \A c \in Uncovered(g, playedTiles) :
                Uncovered(g, playedTiles) = {c} =>
                  validateMove([g EXCEPT !.board = BoardPut(@, c[1], c[2], g.tileBag[1])],
                               playedTiles) # ERR_CONTIGUOUS ]_vars

(* a move of two tiles on a row with a cell between them has succeeded:    *)
(* the cell between them holds a tile of the board                         *)
C8_Witness ==
  /\ request.op = "playMove"
  /\ reply.event = "moveCompleted"
  /\ Len(request.playedTiles) = 2
  /\ OnOneRow(request.playedTiles)
  /\ \E c \in Span(request.playedTiles) \ Cells(request.playedTiles) :
       c \in DOMAIN gameRooms[request.roomId].board

(* the letter and word multipliers of a cell, read on the board as it is   *)
(* before the move: an occupied cell has none                              *)
LetterFactor(g, cell) ==
  IF cell \in DOMAIN g.board THEN 1
  ELSE IF cell \in PREMIUM_DL THEN 2
  ELSE IF cell \in PREMIUM_TL THEN 3
  ELSE 1

WordFactor(g, cell) ==
  IF cell \in DOMAIN g.board THEN 1
  ELSE IF cell \in PREMIUM_DW THEN 2
  ELSE IF cell \in PREMIUM_TW THEN 3
  ELSE 1

(* the score the scoring rule gives the placement on the board of g *)
Credited(g, playedTiles) ==
  LET placed == 1..Len(playedTiles)
      tileScores ==
        SumOf([i \in placed |->
                 TileValue(playedTiles[i].tile)
                 * LetterFactor(g, <<playedTiles[i].row, playedTiles[i].col>>)],
              placed)
      through == (Span(playedTiles) \cap DOMAIN g.board) \ Cells(playedTiles)
      lineBonus == SumOf([c \in through |-> TileValue(g.board[c])], through)
      wordMultiplier ==
        ProductOf([i \in placed |->
                     WordFactor(g, <<playedTiles[i].row, playedTiles[i].col>>)],
                  placed)
  IN (tileScores + lineBonus) * wordMultiplier
     + (IF Len(playedTiles) = 7 THEN 50 ELSE 0)

(* C9: scoring.  The score of a successful move, the one reported and the  *)
(* one added to the mover's score, is (the sum over the placed tiles of    *)
(* value times the letter multiplier of the tile's cell, plus the raw      *)
(* values of the tiles already on the board inside the placed range of the *)
(* move's line, at the cells no new tile covers) times (the product of the *)
(* word multipliers of the placed tiles' cells), plus 50, added after the  *)
(* multiplication, exactly when 7 tiles are placed; the multipliers are    *)
(* read on the board as it is before the move.                             *)
C9_Scoring ==
  [][ (MoveByCurrent /\ reply'.event = "moveCompleted") =>
        LET g == gameRooms[request.roomId]
            after == gameRooms'[request.roomId]
            mover == FindIndex(g.players, request.socket) + 1
        IN /\ reply'.score = Credited(g, request.playedTiles)
           /\ \A i \in 1..Len(g.players) :
                after.players[i].score =
                  g.players[i].score
                  + (IF i = mover THEN Credited(g, request.playedTiles) ELSE 0) ]_vars

(* seven tiles have been placed in one move, over a word multiplier, and   *)
(* the move has scored 50 more than twice the values of its tiles          *)
C9_Witness ==
  /\ request.op = "playMove"
  /\ reply.event = "moveCompleted"
  /\ Len(request.playedTiles) = 7
  /\ <<7, 7>> \in Cells(request.playedTiles)
  /\ reply.score > 50
  /\ reply.score =
       50 + 2 * SumOf([i \in 1..7 |->
                         TileValue(request.playedTiles[i].tile)
                         * (IF <<request.playedTiles[i].row, request.playedTiles[i].col>>
                                 \in PREMIUM_DL THEN 2 ELSE 1)],
                      1..7)

----------------------------------------------------------------------------
(* Properties of exchanges, removals and the lobby, checked under Spec.    *)

(* the handler of an exchangeTiles runs in this step and succeeds *)
Exchanged ==
  TurnRequest /\ request.op = "exchangeTiles" /\ reply'.event = "playerState"

(* C11: exchange never redraws.  After a successful exchangeTiles none of  *)
(* the tiles the exchange returned from the player's rack to the bag is in *)
(* that player's rack.  The code does not keep this: the returned tiles    *)
(* are in the bag when it is shuffled and drawn from.                      *)
C11_ExchangeNeverRedraws ==
  [][ Exchanged =>
        LET g == gameRooms[request.roomId]
            p == FindIndex(g.players, request.socket) + 1
            returned == SeqToSet(g.players[p].tiles) \cap SeqToSet(request.tileIds)
        IN returned \cap SeqToSet(gameRooms'[request.roomId].players[p].tiles)
             = {} ]_vars

(* the handler of a disconnect runs in this step *)
Disconnected == Handled /\ request.op = "disconnect"

(* the sockets the roster holds, each as often as it holds it *)
Entries(g, socket) == { i \in 1..Len(g.players) : g.players[i].id = socket }

(* C12: disconnect removes the identity everywhere.  After the disconnect  *)
(* of a socket has been handled no session of the registry has the socket  *)
(* in its roster, whatever createRoom and joinRoom requests the socket     *)
(* sent before.  The code does not keep this: removePlayer removes one     *)
(* roster entry, and a socket that asked twice has two.                    *)
C12_DisconnectRemovesEverywhere ==
  [][ Disconnected =>
        \A r \in DOMAIN gameRooms' :
          Entries(gameRooms'[r], request.socket) = {} ]_vars

----------------------------------------------------------------------------
(* Rooms.  SpecLobby has two rooms and the events that fill, start and     *)
(* empty them: createRoom, joinRoom, startGame and disconnect, by any      *)
(* socket about any room, in any order.  No tile is looked at by these     *)
(* events, so the bags are shuffled from one stream.                       *)

MaxLobbyEvents == 6

LobbyRooms == {"r1", "r2"}

LobbyShuffles == {0}

ReceiveLobby ==
  /\ request = NoRequest
  /\ events < MaxLobbyEvents
  /\ \E socket \in connected, roomId \in LobbyRooms :
    \/ Arrive(Request("createRoom", socket, roomId, <<>>, <<>>))
    \/ Arrive(Request("joinRoom", socket, roomId, <<>>, <<>>))
    \/ Arrive(Request("startGame", socket, roomId, <<>>, <<>>))
    \/ Arrive(Request("disconnect", socket, NoRoom, <<>>, <<>>))

NextLobby ==
  \/ ReceiveLobby
  \/ \E k \in LobbyShuffles : createRoom(k)
  \/ joinRoom
  \/ startGameHandler
  \/ disconnect
  \/ Return

SpecLobby == Init /\ [][NextLobby]_vars

(* C13: registry garbage collection.  Every session the registry holds has *)
(* at least one player, between any two events and while one is handled;   *)
(* the disconnect that removes the last player of a session deletes the    *)
(* session in the same step, and deletes no session that has an entry left.*)
C13_RegistryGarbageCollected ==
  /\ [](\A r \in DOMAIN gameRooms : Len(gameRooms[r].players) >= 1)
  /\ [][ Disconnected =>
           \A r \in DOMAIN gameRooms :
             r \notin DOMAIN gameRooms'
               <=> \A i \in 1..Len(gameRooms[r].players) :
                     i = 1 /\ gameRooms[r].players[i].id = request.socket ]_vars

(* the disconnect of a socket that is the only player of one room and the  *)
(* first of the two players of the other is being handled                  *)
C13_Witness ==
  /\ Dispatched("disconnect")
  /\ DOMAIN gameRooms = LobbyRooms
  /\ Len(gameRooms["r1"].players) = 1
  /\ gameRooms["r1"].players[1].id = request.socket
  /\ Len(gameRooms["r2"].players) = 2
  /\ gameRooms["r2"].players[1].id = request.socket
  /\ gameRooms["r2"].players[2].id # request.socket

----------------------------------------------------------------------------
(* Properties of the sessions' lives, checked under Spec and SpecLobby.     *)

(* C14: no join after start.  Once a session has gameStarted = TRUE no     *)
(* event adds a player to it: a step never leaves a started session with a *)
(* longer roster.  The code does not keep this: createRoom adds its sender *)
(* to the room it names, started or not.                                   *)
C14_NoJoinAfterStart ==
  [][ \A r \in DOMAIN gameRooms \cap DOMAIN gameRooms' :
        gameRooms[r].gameStarted =>
          Len(gameRooms'[r].players) <= Len(gameRooms[r].players) ]_vars

(* C15: host handoff.  When removePlayer removes the host and a player     *)
(* remains, the player that is first in the roster now, the one that       *)
(* followed the host, is the host (isHost = TRUE, and hostId is its id);   *)
(* when it removes a player that is not the host, the host, hostId and the *)
(* other players' flags are as they were.                                  *)
C15_HostHandoff ==
  [][ Disconnected =>
        \A r \in DOMAIN gameRooms :
          LET g == gameRooms[r]
              index == FindIndex(g.players, request.socket)
              rest == Splice(g.players, index)
          IN (index # -1 /\ Len(g.players) > 1) =>
               /\ r \in DOMAIN gameRooms'
               /\ Len(gameRooms'[r].players) = Len(rest)
               /\ \A i \in 1..Len(rest) : gameRooms'[r].players[i].id = rest[i].id
               /\ IF g.players[index + 1].isHost
                  THEN /\ gameRooms'[r].players[1].isHost
                       /\ gameRooms'[r].hostId = rest[1].id
                       /\ \A i \in 2..Len(rest) : ~gameRooms'[r].players[i].isHost
                  ELSE /\ gameRooms'[r].hostId = g.hostId
                       /\ gameRooms'[r].players = rest ]_vars

(* the host of a room of three has disconnected: the player that joined    *)
(* second is first and host now, the one that joined third is not          *)
C15_Witness ==
  /\ request.op = "disconnect"
  /\ reply.event = "none"
  /\ \E r \in DOMAIN gameRooms :
       LET g == gameRooms[r] IN
         /\ Len(g.players) = 2
         /\ g.players[1].name = 2 /\ g.players[1].isHost
         /\ g.hostId = g.players[1].id
         /\ g.players[2].name = 3 /\ ~g.players[2].isHost

(* the handler of a startGame about an existing room runs in this step *)
StartRequest ==
  Handled /\ request.op = "startGame" /\ request.roomId \in DOMAIN gameRooms

(* C16: startGame guards.  A startGame request changes nothing of any      *)
(* session (gameStarted, racks, bag, currentPlayerIndex) and announces no  *)
(* start when the requester is not the host, when the session is started   *)
(* already or when fewer than 2 players are present; when the host asks,   *)
(* gameStarted is FALSE and 2 or more players are present, the session is  *)
(* started and every player is dealt a rack.                               *)
C16_StartGameGuards ==
  [][ StartRequest =>
        LET g == gameRooms[request.roomId]
            after == gameRooms'[request.roomId]
        IN IF /\ g.hostId = request.socket
              /\ ~g.gameStarted
              /\ Len(g.players) >= 2
           THEN /\ reply'.event = "gameStarted"
                /\ after.gameStarted
                /\ \A i \in 1..Len(after.players) :
                     Len(after.players[i].tiles) = RACK_SIZE
                /\ Len(after.tileBag)
                     = Len(g.tileBag) - RACK_SIZE * Len(g.players)
                /\ after.currentPlayerIndex = g.currentPlayerIndex
           ELSE /\ gameRooms' = gameRooms
                /\ reply'.event # "gameStarted" ]_vars

(* the host, alone in its room, has asked to start: nothing is started *)
C16_Witness ==
  /\ request.op = "startGame"
  /\ reply.event = "none"
  /\ request.roomId \in DOMAIN gameRooms
  /\ gameRooms[request.roomId].hostId = request.socket
  /\ Len(gameRooms[request.roomId].players) = 1
  /\ ~gameRooms[request.roomId].gameStarted
  /\ Len(gameRooms[request.roomId].players[1].tiles) = 0

(* C17: gameStarted is irreversible.  For each session gameStarted goes    *)
(* from FALSE to TRUE only in the step of a successful startGame about it, *)
(* and once TRUE it is TRUE in every later state of the session, also      *)
(* after removals that leave fewer than 2 players; so it goes from FALSE   *)
(* to TRUE at most once.  A session created in this step is not started.   *)
C17_StartedIrreversible ==
  [][ \A r \in DOMAIN gameRooms' :
        IF r \in DOMAIN gameRooms
        THEN /\ gameRooms[r].gameStarted => gameRooms'[r].gameStarted
             /\ (~gameRooms[r].gameStarted /\ gameRooms'[r].gameStarted) =>
                  /\ StartRequest
                  /\ request.roomId = r
                  /\ reply'.event = "gameStarted"
        ELSE ~gameRooms'[r].gameStarted ]_vars

(* a player of a started game of two has disconnected: the game, of one    *)
(* player now, is started still                                            *)
C17_Witness ==
  /\ request.op = "disconnect"
  /\ reply.event = "none"
  /\ \E r \in DOMAIN gameRooms :
       /\ gameRooms[r].gameStarted
       /\ Len(gameRooms[r].players) = 1
       /\ Len(gameRooms[r].tileBag) = NumTiles - RACK_SIZE

(* the handler of a createRoom or a joinRoom about a room of 4 players     *)
(* runs in this step                                                       *)
FullRoomRequest ==
  /\ Handled
  /\ request.op \in {"createRoom", "joinRoom"}
  /\ request.roomId \in DOMAIN gameRooms
  /\ Len(gameRooms[request.roomId].players) = MAX_PLAYERS

(* no roster holds more than 4 players *)
RosterBounded ==
  \A r \in DOMAIN gameRooms : Len(gameRooms[r].players) <= MAX_PLAYERS

(* C18 as stated: roster capacity.  No roster ever holds more than 4       *)
(* players, and a createRoom or joinRoom about a room of 4 players is      *)
(* answered with "Room is full" and adds nobody.  The answer is another    *)
(* one for a joinRoom about a started room.                                *)
C18_FullRoomAnswersCapacity ==
  /\ []RosterBounded
  /\ [][ FullRoomRequest =>
           /\ reply' = Reply("error", ERR_FULL, 0)
           /\ gameRooms' = gameRooms ]_vars

(* C18: roster capacity.  No roster ever holds more than 4 players; a      *)
(* createRoom or joinRoom about a room of 4 players adds nobody and is     *)
(* answered with an error: "Game already started" for a joinRoom about a   *)
(* started room, "Room is full" for every other one.                       *)
C18_RosterCapacity ==
  /\ []RosterBounded
  /\ [][ FullRoomRequest =>
           /\ reply' = Reply("error",
                             IF /\ request.op = "joinRoom"
                                /\ gameRooms[request.roomId].gameStarted
                             THEN ERR_STARTED ELSE ERR_FULL, 0)
           /\ gameRooms' = gameRooms ]_vars

(* a joinRoom about a room of 4 players that is not started has been       *)
(* answered with "Room is full"                                            *)
C18_Witness ==
  /\ request.op = "joinRoom"
  /\ reply = Reply("error", ERR_FULL, 0)
  /\ request.roomId \in DOMAIN gameRooms
  /\ Len(gameRooms[request.roomId].players) = MAX_PLAYERS
  /\ ~gameRooms[request.roomId].gameStarted

(* C19: occupied cells are never reused.  Once a cell of the board holds a *)
(* tile no later step changes or replaces the tile of that cell, and a     *)
(* successful move writes only cells that were empty before it and each of *)
(* them once.  The code does not keep this: validateMove does not look at  *)
(* the cells a placement names.                                            *)
C19_OccupiedCellsKept ==
  [][ /\ \A r \in DOMAIN gameRooms \cap DOMAIN gameRooms' :
           \A c \in DOMAIN gameRooms[r].board :
             /\ c \in DOMAIN gameRooms'[r].board
             /\ gameRooms'[r].board[c] = gameRooms[r].board[c]
      /\ (TurnRequest /\ reply'.event = "moveCompleted") =>
           /\ Cells(request.playedTiles)
                \cap DOMAIN gameRooms[request.roomId].board = {}
           /\ Cardinality(Cells(request.playedTiles))
                = Len(request.playedTiles) ]_vars

(* C20: moves, passes and exchanges happen only in a started session.      *)
(* While a session has gameStarted = FALSE no playMove, passTurn or        *)
(* exchangeTiles request changes its currentPlayerIndex, its bag, a rack,  *)
(* a score or its board.  The code does not keep this: none of the three   *)
(* looks at gameStarted.                                                   *)
C20_TurnsOnlyWhenStarted ==
  [][ (TurnRequest /\ ~gameRooms[request.roomId].gameStarted) =>
        LET g == gameRooms[request.roomId]
            after == gameRooms'[request.roomId]
        IN /\ after.currentPlayerIndex = g.currentPlayerIndex
           /\ after.tileBag = g.tileBag
           /\ after.board = g.board
           /\ Len(after.players) = Len(g.players)
           /\ \A i \in 1..Len(g.players) :
                /\ after.players[i].tiles = g.players[i].tiles
                /\ after.players[i].score = g.players[i].score ]_vars

----------------------------------------------------------------------------
(* Properties of the turn cursor, the racks and the deal, checked under    *)
(* Spec.                                                                   *)

(* C21: turn cursor in range.  In every reachable state of a session with  *)
(* a non-empty roster 0 <= currentPlayerIndex < number of players, also    *)
(* right after removePlayer has removed the current player, the last       *)
(* player of the roster or a player before the current one.                *)
C21_TurnCursorInRange ==
  \A r \in DOMAIN gameRooms :
    LET g == gameRooms[r] IN
      Len(g.players) > 0 =>
        /\ g.currentPlayerIndex >= 0
        /\ g.currentPlayerIndex < Len(g.players)

(* the second player of a started game of two, whose turn it was after the *)
(* first one's move, has disconnected: the turn is the first player's      *)
C21_Witness ==
  /\ request.op = "disconnect"
  /\ reply.event = "none"
  /\ \E r \in DOMAIN gameRooms :
       LET g == gameRooms[r] IN
         /\ g.gameStarted
         /\ g.firstMoveMade
         /\ Len(g.players) = 1
         /\ g.players[1].name = 1
         /\ Len(g.players[1].tiles) = RACK_SIZE
         /\ g.currentPlayerIndex = 0

(* no rack holds more than 7 tiles *)
RacksBounded ==
  \A r \in DOMAIN gameRooms :
    \A i \in 1..Len(gameRooms[r].players) :
      Len(gameRooms[r].players[i].tiles) <= RACK_SIZE

(* the handler of a playMove runs in this step and succeeds *)
Moved ==
  TurnRequest /\ request.op = "playMove" /\ reply'.event = "moveCompleted"

(* C22: rack bound.  In every reachable state each rack holds at most 7    *)
(* tiles; a successful move of k tiles leaves the mover's rack with        *)
(* (size before - k + min(k, bag size before)) tiles; a successful         *)
(* exchange leaves the size of the exchanger's rack as it was.  The code   *)
(* does not keep the first two: playMove deals a tile for every placement  *)
(* sent, whatever it has removed from the rack.                            *)
C22_RackBound ==
  /\ []RacksBounded
  /\ [][ Moved =>
           LET g == gameRooms[request.roomId]
               p == FindIndex(g.players, request.socket) + 1
               k == Len(request.playedTiles)
           IN Len(gameRooms'[request.roomId].players[p].tiles)
                = Len(g.players[p].tiles) - k + Min(k, Len(g.tileBag)) ]_vars
  /\ [][ Exchanged =>
           LET g == gameRooms[request.roomId]
               p == FindIndex(g.players, request.socket) + 1
           IN Len(gameRooms'[request.roomId].players[p].tiles)
                = Len(g.players[p].tiles) ]_vars

----------------------------------------------------------------------------
(* Properties of the premium squares, the validation and the board,        *)
(* checked under SpecMove.                                                 *)

(* the multipliers printed on a cell *)
PrintedLetter(cell) ==
  IF cell \in PREMIUM_DL THEN 2 ELSE IF cell \in PREMIUM_TL THEN 3 ELSE 1

PrintedWord(cell) ==
  IF cell \in PREMIUM_DW THEN 2 ELSE IF cell \in PREMIUM_TW THEN 3 ELSE 1

(* the score of the placement when the printed multipliers of the cells of *)
(* live count and no other multiplier does; the tiles the board holds      *)
(* count their raw value                                                   *)
ScoreCounting(g, playedTiles, live) ==
  LET placed == 1..Len(playedTiles)
      cell(i) == <<playedTiles[i].row, playedTiles[i].col>>
      letters == SumOf([i \in placed |->
                          TileValue(playedTiles[i].tile)
                          * (IF cell(i) \in live THEN PrintedLetter(cell(i)) ELSE 1)],
                       placed)
      through == (Span(playedTiles) \cap DOMAIN g.board) \ Cells(playedTiles)
      held == SumOf([c \in through |-> TileValue(g.board[c])], through)
      words == ProductOf([i \in placed |->
                            IF cell(i) \in live THEN PrintedWord(cell(i)) ELSE 1],
                         placed)
  IN (letters + held) * words
     + (IF Len(playedTiles) = BINGO_TILES THEN BINGO_BONUS ELSE 0)

(* C23: premium squares are spent on first use.  The score of a successful *)
(* move counts the letter and word multipliers of exactly the cells that   *)
(* were empty before it and hold a tile after it; a cell that holds a tile *)
(* holds one in every later state, so the multiplier of a cell counts for  *)
(* one move at most, the one that first places a tile on it; the tiles     *)
(* already on the board count their raw value.                             *)
C23_PremiumSpentOnFirstUse ==
  [][ /\ \A r \in DOMAIN gameRooms \cap DOMAIN gameRooms' :
           DOMAIN gameRooms[r].board \subseteq DOMAIN gameRooms'[r].board
      /\ (MoveByCurrent /\ reply'.event = "moveCompleted") =>
           LET g == gameRooms[request.roomId]
               first == Cells(request.playedTiles) \ DOMAIN g.board
           IN /\ reply'.score = ScoreCounting(g, request.playedTiles, first)
              /\ first \subseteq DOMAIN gameRooms'[request.roomId].board ]_vars

(* one tile worth points has been laid on the center, which held a tile    *)
(* already: the move has scored the tile's value, not twice the value      *)
C23_Witness ==
  /\ request.op = "playMove"
  /\ reply.event = "moveCompleted"
  /\ Cells(request.playedTiles) = {<<CENTER, CENTER>>}
  /\ Len(request.playedTiles) = 1
  /\ <<CENTER, CENTER>> \in PREMIUM_DW
  /\ TileValue(request.playedTiles[1].tile) > 0
  /\ reply.score = TileValue(request.playedTiles[1].tile)

(* two cells that share a side *)
SideBySide(c, d) ==
  \/ c[1] = d[1] /\ (c[2] = d[2] + 1 \/ c[2] + 1 = d[2])
  \/ c[2] = d[2] /\ (c[1] = d[1] + 1 \/ c[1] + 1 = d[1])

(* a cell of the placement is next to a cell that holds a tile *)
Adjacent(g, playedTiles) ==
  \E c \in Cells(playedTiles), d \in DOMAIN g.board : SideBySide(c, d)

(* the checks a placement fails, numbered in the order of the rule book:   *)
(* 1 no tile, 2 opening move without (7,7), 3 not one row or column,       *)
(* 4 a gap along the line, 5 no tile of the board next to it               *)
Failing(g, playedTiles) ==
  { n \in 1..5 :
      \/ n = 1 /\ Len(playedTiles) = 0
      \/ n = 2 /\ ~g.firstMoveMade /\ <<7, 7>> \notin Cells(playedTiles)
      \/ n = 3 /\ ~(OnOneRow(playedTiles) \/ OnOneColumn(playedTiles))
      \/ n = 4 /\ Len(playedTiles) > 0 /\ Uncovered(g, playedTiles) # {}
      \/ n = 5 /\ g.firstMoveMade /\ ~Adjacent(g, playedTiles) }

(* the reason reported for each check *)
Reasons ==
  <<ERR_NO_TILES, ERR_CENTER, ERR_LINE, ERR_CONTIGUOUS, ERR_CONNECT>>

(* C24: validation order.  When a placement of the current player fails    *)
(* several checks at once the reason reported is that of the first failing *)
(* check in the order: no tile, opening move without (7,7), not one row or *)
(* column, gap along the line, no adjacency to a tile of the board; a      *)
(* placement failing none succeeds; the five reasons are distinct.         *)
C24_ValidationOrder ==
  [][ MoveByCurrent =>
        LET failing == Failing(gameRooms[request.roomId], request.playedTiles)
        IN /\ Cardinality(SeqToSet(Reasons)) = 5
           /\ IF failing = {}
              THEN reply'.event = "moveCompleted"
              ELSE reply' = Reply("error", Reasons[MinOf(failing)], 0) ]_vars

(* an opening move of two tiles on a diagonal away from the center, which  *)
(* fails the center check and the line check, has been refused for the     *)
(* center                                                                  *)
C24_Witness ==
  /\ request.op = "playMove"
  /\ reply = Reply("error", ERR_CENTER, 0)
  /\ ~OnOneRow(request.playedTiles)
  /\ ~OnOneColumn(request.playedTiles)
  /\ {2, 3} \subseteq Failing(gameRooms[request.roomId], request.playedTiles)

(* C25: connection rule.  Once firstMoveMade is TRUE a move succeeds only  *)
(* if one of its newly placed tiles is next, above, below, left or right   *)
(* within the grid, to a cell that held a tile before the move; a          *)
(* placement with no such neighbour is rejected and changes nothing, with  *)
(* "New tiles must connect to existing tiles" when it passes the checks    *)
(* before.                                                                 *)
C25_ConnectionRule ==
  [][ (MoveByCurrent /\ gameRooms[request.roomId].firstMoveMade) =>
        LET g == gameRooms[request.roomId]
            playedTiles == request.playedTiles
        IN /\ reply'.event = "moveCompleted" => Adjacent(g, playedTiles)
           /\ ~Adjacent(g, playedTiles) =>
                /\ reply'.event = "error"
                /\ gameRooms' = gameRooms
                /\ Failing(g, playedTiles) = {5} => reply'.message = ERR_CONNECT
           /\ Failing(g, playedTiles) = {} => reply'.event = "moveCompleted" ]_vars

(* a line of tiles that touches a tile of the board at a corner only has   *)
(* been refused                                                            *)
C25_Witness ==
  /\ request.op = "playMove"
  /\ reply = Reply("error", ERR_CONNECT, 0)
  /\ LET g == gameRooms[request.roomId] IN
       /\ g.firstMoveMade
       /\ ~Adjacent(g, request.playedTiles)
       /\ \E c \in Cells(request.playedTiles), d \in DOMAIN g.board :
            /\ c[1] - d[1] \in {-1, 1}
            /\ c[2] - d[2] \in {-1, 1}

----------------------------------------------------------------------------
(* Two rooms at once.  SpecRooms starts from a registry of two sessions:   *)
(* "r1" is the started game of sockets 1 and 2, "r2" is either the lobby   *)
(* socket 2 has created or the game sockets 2 and 1 have started there.    *)
(* Any socket then sends any event about either room, in any order;        *)
(* placements are of one tile at or next to the center, and the malformed  *)
(* ones at the center.                                                     *)

MaxRoomEvents == 3

(* the sessions of "r2" SpecRooms starts from *)
SecondRooms ==
  { addPlayer(NewGame("r2", 0), 2),
    startGame(addPlayer(addPlayer(NewGame("r2", 0), 2), 1)) }

InitRooms ==
  \E g \in SecondRooms :
    /\ gameRooms = PutRoom(PutRoom(<<>>, "r1", Opened(0)), "r2", g)
    /\ connected = Sockets
    /\ socketRooms = { <<s, r>> \in Sockets \X LobbyRooms :
                         FindIndex(gameRooms[r].players, s) # -1 }
    /\ sentGameState = [x \in socketRooms |-> getGameState(gameRooms[x[2]])]
    /\ sentPlayerState =
         [x \in socketRooms |-> getPlayerState(gameRooms[x[2]], x[1])]
    /\ request = NoRequest
    /\ reply = NoReply
    /\ events = 0

ReceiveRooms ==
  /\ request = NoRequest
  /\ events < MaxRoomEvents
  /\ \E socket \in connected, roomId \in LobbyRooms :
    \/ Arrive(Request("createRoom", socket, roomId, <<>>, <<>>))
    \/ Arrive(Request("joinRoom", socket, roomId, <<>>, <<>>))
    \/ Arrive(Request("startGame", socket, roomId, <<>>, <<>>))
    \/ \E playedTiles \in
           MoveRequests(RackOf(socket, roomId),
                        {<<CENTER, CENTER>>, <<CENTER, CENTER + 1>>}, 1,
                        {<<CENTER, CENTER>>}, 2) :
         Arrive(Request("playMove", socket, roomId, playedTiles, <<>>))
    \/ Arrive(Request("passTurn", socket, roomId, <<>>, <<>>))
    \/ \E tileIds \in ExchangeRequests(RackOf(socket, roomId), 1) :
         Arrive(Request("exchangeTiles", socket, roomId, <<>>, tileIds))
    \/ Arrive(Request("disconnect", socket, NoRoom, <<>>, <<>>))

NextRooms == ReceiveRooms \/ Handle \/ Return

SpecRooms == InitRooms /\ [][NextRooms]_vars

(* the session of room r is the same before and after the step *)
RoomUnchanged(r) ==
  /\ r \in DOMAIN gameRooms <=> r \in DOMAIN gameRooms'
  /\ r \in DOMAIN gameRooms => gameRooms'[r] = gameRooms[r]

(* C26: cross-room independence.  The handler of a createRoom, joinRoom,   *)
(* startGame, playMove, passTurn or exchangeTiles event that names a room  *)
(* leaves the session of every other room as it was, and creates and       *)
(* deletes no other room; the handler of a disconnect leaves every session *)
(* whose roster does not hold the disconnecting socket as it was, and      *)
(* creates no room.                                                        *)
C26_CrossRoomIndependence ==
  [][ Handled =>
        IF request.op = "disconnect"
        THEN /\ DOMAIN gameRooms' \subseteq DOMAIN gameRooms
             /\ \A r \in DOMAIN gameRooms :
                  Entries(gameRooms[r], request.socket) = {} => RoomUnchanged(r)
        ELSE \A r \in (LobbyRooms \cup DOMAIN gameRooms \cup DOMAIN gameRooms')
                        \ {request.roomId} : RoomUnchanged(r) ]_vars

(* a move has been completed in "r1" while "r2" holds a started game whose *)
(* board is empty and whose racks are full                                 *)
C26_Witness ==
  /\ request.op = "playMove"
  /\ request.roomId = "r1"
  /\ reply.event = "moveCompleted"
  /\ "r2" \in DOMAIN gameRooms
  /\ gameRooms["r2"].gameStarted
  /\ gameRooms["r2"] # gameRooms["r1"]
  /\ DOMAIN gameRooms["r2"].board = {}
  /\ DOMAIN gameRooms["r1"].board # {}

----------------------------------------------------------------------------
(* The deal.  playMove takes the tiles of a placement as the request sends *)
(* them: it looks at their ids to filter the mover's rack and never asks   *)
(* whether the mover holds them.  SpecDeal has the events that fill and    *)
(* start a room and playMove events whose one tile, laid at or next to the *)
(* center, is the first of the sender's rack or a tile the sender does not *)
(* hold.                                                                   *)

MaxDealEvents == 5

(* tiles in a request that are not of the sender's rack: a tile object     *)
(* the client has made up, seen by playMove as an id no rack tile has      *)
Foreign(socket, roomId) ==
  { id \in {1, 2} : id \notin SeqToSet(RackOf(socket, roomId)) }

ReceiveDeal ==
  /\ request = NoRequest
  /\ events < MaxDealEvents
  /\ \E socket \in connected, roomId \in Rooms :
    \/ Arrive(Request("createRoom", socket, roomId, <<>>, <<>>))
    \/ Arrive(Request("joinRoom", socket, roomId, <<>>, <<>>))
    \/ Arrive(Request("startGame", socket, roomId, <<>>, <<>>))
    \/ \E playedTiles \in
           Lines(RackOf(socket, roomId), {<<CENTER, CENTER>>}, 1)
           \cup { Line(CENTER, col, "row", <<tile>>, 0) :
                    col \in {CENTER, CENTER + 1},
                    tile \in Foreign(socket, roomId) } :
         Arrive(Request("playMove", socket, roomId, playedTiles, <<>>))

NextDeal ==
  \/ ReceiveDeal
  \/ \E k \in Shuffles : createRoom(k)
  \/ joinRoom
  \/ startGameHandler
  \/ playMoveHandler
  \/ Return

SpecDeal == Init /\ [][NextDeal]_vars

(* C27: initial deal.  A startGame that succeeds on a session of n         *)
(* players, 2 <= n <= 4, leaves every player a rack of exactly 7 tiles,    *)
(* the last 7n tiles of the bag dealt from its tail in roster order, and   *)
(* a bag of the 100 - 7n tiles before them.  The code does not keep this   *)
(* for a session whose lobby has seen a move: the mover has drawn tiles    *)
(* before the deal.                                                        *)
C27_InitialDeal ==
  [][ (StartRequest /\ reply'.event = "gameStarted") =>
        LET g == gameRooms[request.roomId]
            after == gameRooms'[request.roomId]
            n == Len(g.players)
            bag == Len(g.tileBag)
        IN /\ n >= 2 /\ n <= MAX_PLAYERS
           /\ Len(after.players) = n
           /\ \A i \in 1..n :
                /\ Len(after.players[i].tiles) = RACK_SIZE
                /\ \A j \in 1..RACK_SIZE :
                     after.players[i].tiles[j] =
                       g.tileBag[bag - RACK_SIZE * (i - 1) - (j - 1)]
           /\ Len(after.tileBag) = NumTiles - RACK_SIZE * n
           /\ after.tileBag = SubSeq(g.tileBag, 1, bag - RACK_SIZE * n) ]_vars

----------------------------------------------------------------------------
(* The shape of the board, checked under SpecMove.                         *)

RECURSIVE Region(_, _)
(* the cells of occupied that a path of side-by-side cells of occupied     *)
(* joins to a cell of seen                                                 *)
Region(occupied, seen) ==
  LET more == { c \in occupied \ seen : \E d \in seen : SideBySide(c, d) }
  IN IF more = {} THEN seen ELSE Region(occupied, seen \cup more)

(* the occupied cells of g are one region that holds the center *)
OneRegion(g) ==
  /\ <<CENTER, CENTER>> \in DOMAIN g.board
  /\ Region(DOMAIN g.board, {<<CENTER, CENTER>>}) = DOMAIN g.board

(* C28: board shape.  In every state of every session firstMoveMade is     *)
(* FALSE exactly when the board holds no tile, and when it is TRUE cell    *)
(* (7,7) holds a tile and the occupied cells are one region connected      *)
(* side by side.                                                           *)
C28_BoardShape ==
  \A r \in DOMAIN gameRooms :
    LET g == gameRooms[r] IN
      /\ ~g.firstMoveMade <=> DOMAIN g.board = {}
      /\ g.firstMoveMade => OneRegion(g)

(* a move has been completed that lengthened a board of two lines, a row   *)
(* and a column, which holds nine cells or more now                        *)
C28_Witness ==
  /\ request.op = "playMove"
  /\ reply.event = "moveCompleted"
  /\ LET g == gameRooms[request.roomId] IN
       /\ g.firstMoveMade
       /\ Cardinality(DOMAIN g.board) >= 9
       /\ Cardinality({ c[1] : c \in DOMAIN g.board }) >= 3
       /\ Cardinality({ c[2] : c \in DOMAIN g.board }) >= 3
       /\ OneRegion(g)

----------------------------------------------------------------------------
(* The page.  Each client keeps playerTiles, the rack it shows, and        *)
(* boardPlacements, the tiles it has dropped on the board and not sent     *)
(* yet; gameState and the playerState it was sent last are                 *)
(* sentGameState and sentPlayerState.                                      *)

(* isMyTurn of the page of playerId *)
isMyTurn(gameState, playerId) ==
  /\ gameState.currentPlayerIndex < Len(gameState.players)
  /\ gameState.players[gameState.currentPlayerIndex + 1].id = playerId

(* playerTiles after handleDropOnBoard has run for every tile of           *)
(* playedTiles, each dragged from the rack                                 *)
handleDropOnBoard(playerTiles, playedTiles) ==
  SelectSeq(playerTiles,
            LAMBDA t : \A i \in 1..Len(playedTiles) : playedTiles[i].tile # t)

(* the placements the page lets its user build and send: it is the user's  *)
(* turn, every tile was dragged from the rack shown, onto a cell that is   *)
(* empty in gameState and holds no other placement                         *)
PagePlacement(gameState, playerState, playerId, playedTiles) ==
  /\ Len(playedTiles) > 0
  /\ isMyTurn(gameState, playerId)
  /\ playerState # NoPlayerState
  /\ \A i \in 1..Len(playedTiles) :
       /\ playedTiles[i].tile \in SeqToSet(playerState.tiles)
       /\ <<playedTiles[i].row, playedTiles[i].col>> \notin DOMAIN gameState.board
       /\ \A j \in 1..Len(playedTiles) :
            i # j => /\ playedTiles[i].tile # playedTiles[j].tile
                     /\ <<playedTiles[i].row, playedTiles[i].col>> #
                          <<playedTiles[j].row, playedTiles[j].col>>

(* playerTiles of the page after the events the playMove handler sent it:  *)
(* playerState replaces the rack shown, error leaves it as it is           *)
playerTilesAfter(playerTiles, event, playerState) ==
  IF event = "moveCompleted" /\ playerState # NoPlayerState
  THEN playerState.tiles
  ELSE playerTiles

(* boardPlacements of the page after its playMove has emitted the request  *)
boardPlacementsAfter == {}

(* the handler of a playMove the page of a player of the room has built    *)
(* and sent runs in this step                                              *)
PageMove ==
  /\ Handled
  /\ request.op = "playMove"
  /\ request.roomId \in DOMAIN gameRooms
  /\ FindIndex(gameRooms[request.roomId].players, request.socket) # -1
  /\ <<request.socket, request.roomId>> \in DOMAIN sentGameState
  /\ <<request.socket, request.roomId>> \in DOMAIN sentPlayerState
  /\ PagePlacement(sentGameState[<<request.socket, request.roomId>>],
                   sentPlayerState[<<request.socket, request.roomId>>],
                   request.socket, request.playedTiles)

(* the page shows, in its rack and in its placements, exactly the tiles    *)
(* of the sender's rack in the session, after the step                     *)
PageShowsRack ==
  LET x == <<request.socket, request.roomId>>
      playerTiles ==
        playerTilesAfter(handleDropOnBoard(sentPlayerState[x].tiles,
                                           request.playedTiles),
                         reply'.event,
                         IF x \in DOMAIN sentPlayerState'
                         THEN sentPlayerState'[x] ELSE NoPlayerState)
      rack == getPlayerState(gameRooms'[request.roomId], request.socket).tiles
  IN /\ Len(playerTiles) + Cardinality(boardPlacementsAfter) = Len(rack)
     /\ SeqToSet(playerTiles) \cup boardPlacementsAfter = SeqToSet(rack)

(* C29: client rack consistency.  Once the page of a player has processed  *)
(* what the server sent in answer to its playMove, the move accepted or    *)
(* rejected, the tiles of its rack and of its pending placements are       *)
(* exactly the tiles of the player's rack in the session.  The code does   *)
(* not keep this for a rejected move: the tiles sent are in no place of    *)
(* the page any more.                                                      *)
C29_ClientRackConsistent ==
  [][ PageMove => PageShowsRack ]_vars

=============================================================================
